---- MODULE Spec2Model ----
(***************************************************************************)
(* A model of epan/secrets.c: the secrets-type dispatch registry           *)
(* (secrets_callbacks), the RSA private-key store keyed by the public      *)
(* key's SHA-1 key ID (rsa_privkeys), the key loader run by the UAT        *)
(* post-update callback, and secrets_rsa_decrypt.                          *)
(***************************************************************************)
EXTENDS Integers, Sequences, FiniteSets, TLC

VARIABLES
    initialized,        \* secrets_cleanup has not run yet
    secrets_callbacks,  \* GHashTable: set of nodes [k |-> secrets_type, v |-> cb]
    rsa_privkeys,       \* GHashTable: set of nodes [k |-> key id, v |-> handle]
    uat_rsa_privkeys,   \* the configured records (uat_num_rsa_privkeys = Len)
    heap,               \* the provider's private-key objects, by handle
    reload,             \* frame of an in-progress uat_rsa_privkeys_post_update
    decrypt,            \* frame of an in-progress secrets_rsa_decrypt
    registered,         \* per type, the callbacks given to secrets_register_type
    loaded_once,        \* some reload has completed and left a key in the store
    last                \* what the most recently completed call did and returned

vars == <<initialized, secrets_callbacks, rsa_privkeys, uat_rsa_privkeys,
          heap, reload, decrypt, registered, loaded_once, last>>

----------------------------------------------------------------------------
(* Bounds of the model.                                                    *)

\* Longest configured list of key sources.
MaxSources == 2
\* Number of private-key objects the provider hands out in one run.
MaxHandles == 3

----------------------------------------------------------------------------
(* Values of the program and of the libraries it calls.                    *)

NULL == 0
GNUTLS_E_SUCCESS == 0
GNUTLS_E_NO_CERTIFICATE_FOUND == -49

\* The provider's other error codes (gnutls.h).
gnutls_error(name) ==
    CASE name = "GNUTLS_E_DECRYPTION_FAILED" -> -24
      [] name = "GNUTLS_E_MEMORY_ERROR" -> -25
      [] name = "GNUTLS_E_PK_DECRYPTION_FAILED" -> -45
      [] OTHER -> -50  \* GNUTLS_E_INVALID_REQUEST

\* sizeof(cert_key_id_t) in 32-bit words: the 20-byte SHA-1 key ID that
\* key_id_hash reads as dw[0] .. dw[4].
KeyIdWords == 5

Handles == 1..MaxHandles

\* The key pairs of the environment.  Keys 1 and 2 are usable, key 3 is
\* refused by gnutls_privkey_import_x509, key 4 by
\* gnutls_x509_privkey_get_key_id.
KeyPairs == 1..4

\* The SHA-1 key ID of each key pair's public key.  Keys 1 and 2 differ in
\* every word they set and have the same key_id_hash.
Sha1KeyId(k) ==
    CASE k = 1 -> <<1, 0, 0, 0, 0>>
      [] k = 2 -> <<0, 1, 0, 0, 0>>
      [] k = 3 -> <<1, 1, 0, 0, 0>>
      [] OTHER -> <<0, 0, 1, 0, 0>>

\* The key IDs a dissector asks for: those of keys 1 and 2 and one that
\* belongs to no configured key.
ProbeKeyIds == {Sha1KeyId(1), Sha1KeyId(2), <<1, 0, 0, 0, 1>>}

\* The files on disk, by name.  A name outside the domain does not exist.
FileNames == {"k1.pem", "k2.p12", "noimport.pem", "nokeyid.pem"}
FileContent(name) ==
    CASE name = "k1.pem"       -> [fmt |-> "pem", key |-> 1, pass |-> ""]
      [] name = "k2.p12"       -> [fmt |-> "p12", key |-> 2, pass |-> "secret"]
      [] name = "noimport.pem" -> [fmt |-> "pem", key |-> 3, pass |-> ""]
      [] OTHER                 -> [fmt |-> "pem", key |-> 4, pass |-> ""]

\* The records a user can configure (rsa_privkey_record_t).
SourceRecords ==
    { [uri |-> "pkcs11:token",  password |-> "1234"],
      [uri |-> "missing.pem",   password |-> ""],
      [uri |-> "k1.pem",        password |-> ""],
      [uri |-> "k2.p12",        password |-> "secret"],
      [uri |-> "k2.p12",        password |-> "wrong"],
      [uri |-> "noimport.pem",  password |-> ""],
      [uri |-> "nokeyid.pem",   password |-> ""] }

RECURSIVE SeqsUpTo(_, _)
SeqsUpTo(S, n) ==
    IF n = 0 THEN {<<>>}
    ELSE LET shorter == SeqsUpTo(S, n - 1)
         IN  shorter \cup {Append(s, x) : s \in shorter, x \in S}

SourceLists == SeqsUpTo(SourceRecords, MaxSources)

----------------------------------------------------------------------------
(* The crypto provider (GnuTLS) and the key-file decoders, as the calls of *)
(* secrets.c see them.                                                     *)

\* A char* that is NULL, and a GString* that is NULL.
NullStr == <<>>

\* RSA with PKCS#1-style padding over a toy modulus: a block for the
\* length and one per plaintext byte, bytes and lengths in 0 .. 3, each
\* padded to the block 16 + byte.
PlainBytes == 0..3
Pad(byte) == 16 + byte
Padded(b) == b \div 4 = 4
Modulus(k) == IF k = 1 THEN 33 ELSE 55
PubExp(k) == 3
PrivExp(k) == IF k = 1 THEN 7 ELSE 27

RECURSIVE ModExp(_, _, _)
ModExp(b, e, n) == IF e = 0 THEN 1 % n ELSE (b * ModExp(b, e - 1, n)) % n

\* What the peer does with the public key of key pair k.
Encrypt(k, plain) ==
    [i \in 1..(Len(plain) + 1) |->
        ModExp(Pad(IF i = 1 THEN Len(plain) ELSE plain[i - 1]), PubExp(k), Modulus(k))]

\* heap[h]: alloc after gnutls_privkey_init, key the key pair the object
\* holds (NULL before the import and once the object is destroyed), deinit
\* the number of gnutls_privkey_deinit calls on it.
EmptyHeap == [h \in Handles |-> [alloc |-> FALSE, key |-> NULL, deinit |-> 0]]
FreeHandles(hp) == {h \in Handles : ~hp[h].alloc}
Live(hp, h) == hp[h].alloc /\ hp[h].deinit = 0

\* gnutls_privkey_init: the new object's handle.
NewHandle(hp) == CHOOSE h \in FreeHandles(hp) : \A g \in FreeHandles(hp) : h <= g
gnutls_privkey_init(hp) == [hp EXCEPT ![NewHandle(hp)].alloc = TRUE]

\* gnutls_privkey_deinit of every handle in hs; deinit(NULL) does nothing.
gnutls_privkey_deinit(hp, hs) ==
    [h \in Handles |->
        IF h \in hs THEN [hp[h] EXCEPT !.key = NULL, !.deinit = @ + 1] ELSE hp[h]]

\* gnutls_privkey_import_x509: the return code for key pair k.
gnutls_privkey_import_x509(k) ==
    IF k = 3 THEN gnutls_error("GNUTLS_E_INVALID_REQUEST") ELSE GNUTLS_E_SUCCESS

\* gnutls_x509_privkey_get_key_id with GNUTLS_KEYID_USE_SHA1.
gnutls_x509_privkey_get_key_id(k) ==
    IF k = 4
    THEN [ret |-> gnutls_error("GNUTLS_E_MEMORY_ERROR"), key_id |-> Sha1KeyId(k), size |-> 0]
    ELSE [ret |-> GNUTLS_E_SUCCESS, key_id |-> Sha1KeyId(k), size |-> KeyIdWords]

\* One block through the private key of key pair k: the byte, or -1 when
\* the padding is wrong.
DecryptBlock(k, c) ==
    LET b == ModExp(c % Modulus(k), PrivExp(k), Modulus(k))
    IN  IF Padded(b) THEN b % 4 ELSE -1

\* gnutls_privkey_decrypt_data with a live key object.
DecryptWith(k, encr) ==
    LET blocks == [i \in 1..Len(encr) |-> DecryptBlock(k, encr[i])]
    IN  IF encr = <<>>
        THEN [ret |-> gnutls_error("GNUTLS_E_PK_DECRYPTION_FAILED"), data |-> <<>>, size |-> 0]
        ELSE IF (\E i \in 1..Len(encr) : blocks[i] < 0) \/ blocks[1] # Len(encr) - 1
        THEN [ret |-> gnutls_error("GNUTLS_E_DECRYPTION_FAILED"), data |-> <<>>, size |-> 0]
        ELSE [ret |-> GNUTLS_E_SUCCESS, data |-> Tail(blocks), size |-> Len(encr) - 1]

\* rsa_load_pem_key and rsa_load_pkcs12 (wsutil/rsa.c): the x509 private
\* key of the file, or NULL and a message.
rsa_load_pem_key(file) ==
    IF file.fmt = "pem"
    THEN [key |-> file.key, errmsg |-> NullStr]
    ELSE [key |-> NULL, errmsg |-> <<"can't import pem data">>]

rsa_load_pkcs12(file, password) ==
    IF file.fmt # "p12"
    THEN [key |-> NULL, errmsg |-> <<"could not load PKCS#12 in DER or PEM format">>]
    ELSE IF password # file.pass
    THEN [key |-> NULL, errmsg |-> <<"could not decrypt PKCS#12 file">>]
    ELSE [key |-> file.key, errmsg |-> NullStr]

----------------------------------------------------------------------------
(* The key store: a GHashTable with key_id_hash and key_id_equal.          *)

RECURSIVE XOR(_, _)
XOR(a, b) ==
    IF a = 0 /\ b = 0 THEN 0
    ELSE (((a % 2) + (b % 2)) % 2) + (2 * XOR(a \div 2, b \div 2))

key_id_hash(key) == XOR(XOR(XOR(XOR(key[1], key[2]), key[3]), key[4]), key[5])

key_id_equal(a, b) == \A i \in 1..KeyIdWords : a[i] = b[i]

\* The nodes of the table that a key selects: same hash, and equal by the
\* table's key_equal_func.
PrivkeyNodes(tab, key) ==
    {n \in tab : key_id_hash(n.k) = key_id_hash(key) /\ key_id_equal(n.k, key)}

\* A lookup that trusts the hash and never calls key_equal_func.
privkeys_lookup_by_hash(tab, key) ==
    LET hit == {n \in tab : key_id_hash(n.k) = key_id_hash(key)}
    IN  IF hit = {} THEN NULL ELSE (CHOOSE n \in hit : TRUE).v

\* g_hash_table_lookup(rsa_privkeys, key)
privkeys_lookup(tab, key) ==
    IF PrivkeyNodes(tab, key) = {} THEN NULL
    ELSE (CHOOSE n \in PrivkeyNodes(tab, key) : TRUE).v

\* An insert into a table made without the value_destroy_func: the value
\* it replaces is not released.
privkeys_insert_leak(w, key, pkey) ==
    [w EXCEPT !.tab = (@ \ PrivkeyNodes(w.tab, key)) \cup {[k |-> key, v |-> pkey]}]

\* An insert that keeps the value a key already has and releases the new
\* one.
privkeys_insert_first(w, key, pkey) ==
    IF PrivkeyNodes(w.tab, key) = {}
    THEN [w EXCEPT !.tab = @ \cup {[k |-> key, v |-> pkey]}]
    ELSE [w EXCEPT !.heap = gnutls_privkey_deinit(@, {pkey})]

\* g_hash_table_insert on a table made by privkey_hash_table_new: a node
\* with an equal key keeps its key, takes the new value, and its old value
\* goes to gnutls_privkey_deinit.
privkeys_insert(w, key, pkey) ==
    LET old == PrivkeyNodes(w.tab, key)
    IN  IF old = {}
        THEN [w EXCEPT !.tab = @ \cup {[k |-> key, v |-> pkey]}]
        ELSE [w EXCEPT !.tab = (@ \ old) \cup {[k |-> n.k, v |-> pkey] : n \in old},
                       !.heap = gnutls_privkey_deinit(@, {n.v : n \in old})]

\* A removal that leaves one node in the table.
privkeys_remove_all_but_one(w) ==
    IF w.tab = {} THEN w
    ELSE LET kept == CHOOSE n \in w.tab : TRUE
         IN  [w EXCEPT !.tab = {kept},
                       !.heap = gnutls_privkey_deinit(@, {n.v : n \in w.tab \ {kept}})]

\* Emptying a table made without the value_destroy_func.
privkeys_remove_all_leak(w) == [w EXCEPT !.tab = {}]

\* g_hash_table_remove_all, and g_hash_table_destroy: every value goes to
\* gnutls_privkey_deinit.
privkeys_remove_all(w) ==
    [w EXCEPT !.tab = {},
              !.heap = gnutls_privkey_deinit(@, {n.v : n \in w.tab})]

rsa_privkey_add(w, key_id, pkey) == privkeys_insert(w, key_id, pkey)

----------------------------------------------------------------------------
(* The key loader.                                                         *)

\* A test that takes no URI for a token URI.
g_str_has_prefix_never(str, prefix) == FALSE

g_str_has_prefix(str, prefix) ==
    CASE str = "pkcs11:token" -> prefix = "pkcs11:"
      [] OTHER -> FALSE

\* ws_fopen(filename, "rb") returns a stream.
ws_fopen(filename) == filename \in FileNames

\* An end: that does not release the key object.
load_rsa_keyfile_end_leak(w, privkey) == w

\* The label end: of load_rsa_keyfile: gnutls_privkey_deinit(privkey),
\* which does nothing for NULL.
load_rsa_keyfile_end(w, privkey) ==
    [w EXCEPT !.heap = gnutls_privkey_deinit(@, {privkey} \ {NULL})]

\* load_rsa_keyfile(filename, password, &err) on the store and heap of w:
\* the store and heap afterwards, *err, and the names given to ws_fopen so
\* far.
load_rsa_keyfile(w, filename, password) ==
    [opened |-> Append(w.opened, filename)] @@
    IF ~ws_fopen(filename)
    THEN [tab |-> w.tab, heap |-> w.heap,
          err |-> <<"Error loading RSA key file", filename, <<"ENOENT">>>>]
    ELSE
    LET file == FileContent(filename)
        loaded == IF password = "" THEN rsa_load_pem_key(file)
                  ELSE rsa_load_pkcs12(file, password)
        x509_priv_key == loaded.key
    IN  IF x509_priv_key = NULL
        THEN [tab |-> w.tab, heap |-> w.heap,
              err |-> <<"Error loading RSA key file", filename, loaded.errmsg>>]
        ELSE
        LET privkey == NewHandle(w.heap)
            inited == gnutls_privkey_init(w.heap)
            ret == gnutls_privkey_import_x509(x509_priv_key)
            imported == [inited EXCEPT ![privkey].key = x509_priv_key]
            id == gnutls_x509_privkey_get_key_id(x509_priv_key)
        IN  IF ret < 0
            THEN [err |-> <<"Error importing private key", filename, <<ret>>>>]
                 @@ load_rsa_keyfile_end([tab |-> w.tab, heap |-> inited], privkey)
            ELSE IF id.ret < 0 \/ id.size # KeyIdWords
            THEN [err |-> <<"Error calculating Key ID for", filename, <<id.ret>>>>]
                 @@ load_rsa_keyfile_end([tab |-> w.tab, heap |-> imported], privkey)
            ELSE \* "Remember the private key", and privkey = NULL
                 [err |-> NullStr]
                 @@ load_rsa_keyfile_end(
                        rsa_privkey_add([tab |-> w.tab, heap |-> imported],
                                        id.key_id, privkey),
                        NULL)

\* The two lines that join a source's error to the report so far.
append_error(errors, err) ==
    Append(IF errors = NullStr THEN <<"Error processing rsa_privkeys:">> ELSE errors,
           err)

\* The end of a turn of the loop: "if (err)", on the store, heap and err
\* in r.
collect_error(errors, r) ==
    [tab |-> r.tab, heap |-> r.heap, opened |-> r.opened,
     errors |-> IF r.err # NullStr THEN append_error(errors, r.err) ELSE errors]

\* A turn of the loop that adds the record's password to its error.
post_update_iter_echo(w, rec) ==
    collect_error(w.errors,
                  IF g_str_has_prefix(rec.uri, "pkcs11:")
                  THEN [tab |-> w.tab, heap |-> w.heap, opened |-> w.opened,
                        err |-> NullStr]
                  ELSE [load_rsa_keyfile(w, rec.uri, rec.password)
                           EXCEPT !.err = IF @ # NullStr THEN Append(@, rec.password)
                                          ELSE @])

\* One turn of the loop of uat_rsa_privkeys_post_update, on
\* w = [tab, heap, errors, opened].
post_update_iter(w, rec) ==
    collect_error(w.errors,
                  IF g_str_has_prefix(rec.uri, "pkcs11:")
                  THEN [tab |-> w.tab, heap |-> w.heap, opened |-> w.opened,
                        err |-> NullStr]
                  ELSE load_rsa_keyfile(w, rec.uri, rec.password))

\* A reload that forgets to clear the previous keys.
post_update_clear_keep(tab, hp) ==
    [tab |-> tab, heap |-> hp, errors |-> NullStr, opened |-> <<>>]

\* "Clear previous keys", and errors = NULL.
post_update_clear(tab, hp) ==
    LET cleared == privkeys_remove_all([tab |-> tab, heap |-> hp])
    IN  [tab |-> cleared.tab, heap |-> cleared.heap, errors |-> NullStr,
         opened |-> <<>>]

\* A loop that gives up at the first source that reports an error.
RECURSIVE post_update_loop_stop(_, _)
post_update_loop_stop(w, recs) ==
    IF recs = <<>> \/ w.errors # NullStr THEN w
    ELSE post_update_loop_stop(post_update_iter(w, Head(recs)), Tail(recs))

\* The loop over uat_rsa_privkeys[i .. uat_num_rsa_privkeys - 1].
RECURSIVE post_update_loop(_, _)
post_update_loop(w, recs) ==
    IF recs = <<>> THEN w
    ELSE post_update_loop(post_update_iter(w, Head(recs)), Tail(recs))

\* A report_failure for each source that failed.
post_update_report_each(errors) ==
    IF errors # NullStr
    THEN [i \in 1..(Len(errors) - 1) |-> <<errors[1], errors[i + 1]>>]
    ELSE <<>>

\* The calls of report_failure after the loop.
post_update_report(errors) == IF errors # NullStr THEN <<errors>> ELSE <<>>

----------------------------------------------------------------------------
(* The dispatch registry: a GHashTable with g_direct_hash, g_direct_equal. *)

SecretsTypes == {1, 2, 3}
RegisteredTypes == {1, 2}
Callbacks == {1, 2}
SecretsBlobs == {<<7>>, <<8, 9>>}

CallbackNodes(tab, secrets_type) == {n \in tab : n.k = secrets_type}

\* A lookup that falls back on some registered handler.
callbacks_lookup_default(tab, secrets_type) ==
    IF CallbackNodes(tab, secrets_type) # {}
    THEN (CHOOSE n \in CallbackNodes(tab, secrets_type) : TRUE).v
    ELSE IF tab # {} THEN (CHOOSE n \in tab : TRUE).v
    ELSE NULL

callbacks_lookup(tab, secrets_type) ==
    IF CallbackNodes(tab, secrets_type) = {} THEN NULL
    ELSE (CHOOSE n \in CallbackNodes(tab, secrets_type) : TRUE).v

\* A registration that keeps the handler a type already has.
callbacks_insert_keep(tab, secrets_type, cb) ==
    IF CallbackNodes(tab, secrets_type) # {} THEN tab
    ELSE tab \cup {[k |-> secrets_type, v |-> cb]}

callbacks_insert(tab, secrets_type, cb) ==
    (tab \ CallbackNodes(tab, secrets_type)) \cup {[k |-> secrets_type, v |-> cb]}

\* The handler calls that secrets_wtap_callback makes.
wtap_callback_calls(tab, secrets_type, secrets, size) ==
    LET cb == callbacks_lookup(tab, secrets_type)
    IN  IF cb # NULL THEN <<[cb |-> cb, secrets |-> secrets, size |-> size]>>
        ELSE <<>>

----------------------------------------------------------------------------
(* The decrypt operation.                                                  *)

Plaintexts == {<<1>>, <<2, 3>>}
Ciphertexts == {Encrypt(k, p) : k \in {1, 2}, p \in Plaintexts} \cup {<<5>>}

\* A caller's output cell that the call has or has not written.
Unwritten == [set |-> FALSE, val |-> <<>>]
Written(v) == [set |-> TRUE, val |-> v]

\* gnutls_privkey_decrypt_data(pkey, 0, &ciphertext, &plain): the results
\* it can give.  On a key object already deinitialised the call reads freed
\* memory: it may use any key, fail, or fault.
gnutls_privkey_decrypt_data(hp, pkey, encr) ==
    IF Live(hp, pkey)
    THEN {[fault |-> FALSE] @@ DecryptWith(hp[pkey].key, encr)}
    ELSE {[fault |-> FALSE] @@ DecryptWith(k, encr) : k \in {1, 2}}
         \cup {[fault |-> TRUE, ret |-> gnutls_error("GNUTLS_E_INVALID_REQUEST"),
                data |-> <<>>, size |-> 0]}

\* A decrypt that reports encr_len as the length of the plaintext.
decrypt_result_encr_len(key_id, encr, pkey, r) ==
    [op |-> "secrets_rsa_decrypt", key_id |-> key_id, encr |-> encr,
     provider |-> <<[pkey |-> pkey, encr |-> encr]>>,
     fault |-> r.fault,
     ret |-> r.ret,
     out |-> IF r.ret = 0 THEN Written(r.data) ELSE Unwritten,
     out_len |-> IF r.ret = 0 THEN Written(<<Len(encr)>>) ELSE Unwritten]

\* A decrypt that keeps of the provider's code only whether it is zero, as
\* a gboolean holding TRUE or FALSE would.
decrypt_result_boolean(key_id, encr, pkey, r) ==
    [op |-> "secrets_rsa_decrypt", key_id |-> key_id, encr |-> encr,
     provider |-> <<[pkey |-> pkey, encr |-> encr]>>,
     fault |-> r.fault,
     ret |-> IF r.ret # 0 THEN 1 ELSE 0,
     out |-> IF r.ret = 0 THEN Written(r.data) ELSE Unwritten,
     out_len |-> IF r.ret = 0 THEN Written(<<r.size>>) ELSE Unwritten]

\* A decrypt that answers every failure of the provider with the code it
\* has for a missing key.
decrypt_result_no_certificate(key_id, encr, pkey, r) ==
    [op |-> "secrets_rsa_decrypt", key_id |-> key_id, encr |-> encr,
     provider |-> <<[pkey |-> pkey, encr |-> encr]>>,
     fault |-> r.fault,
     ret |-> IF r.ret = 0 THEN 0 ELSE GNUTLS_E_NO_CERTIFICATE_FOUND,
     out |-> IF r.ret = 0 THEN Written(r.data) ELSE Unwritten,
     out_len |-> IF r.ret = 0 THEN Written(<<r.size>>) ELSE Unwritten]

\* secrets_rsa_decrypt after the lookup gave pkey: what it returns and
\* writes, given the provider's result r.
decrypt_result(key_id, encr, pkey, r) ==
    [op |-> "secrets_rsa_decrypt", key_id |-> key_id, encr |-> encr,
     provider |-> <<[pkey |-> pkey, encr |-> encr]>>,
     fault |-> r.fault,
     ret |-> r.ret,
     out |-> IF r.ret = 0 THEN Written(r.data) ELSE Unwritten,
     out_len |-> IF r.ret = 0 THEN Written(<<r.size>>) ELSE Unwritten]

\* A decrypt that releases the key it used.
decrypt_return_deinit(w, pkey) ==
    [w EXCEPT !.heap = gnutls_privkey_deinit(@, {pkey} \ {NULL})]

\* What secrets_rsa_decrypt leaves of the store and the heap: it inserts
\* and removes nothing, and frees only plain.data.
decrypt_return(w, pkey) == w

\* secrets_rsa_decrypt when the lookup gave NULL.
decrypt_not_found(key_id, encr) ==
    [op |-> "secrets_rsa_decrypt", key_id |-> key_id, encr |-> encr,
     provider |-> <<>>,
     fault |-> FALSE,
     ret |-> GNUTLS_E_NO_CERTIFICATE_FOUND,
     out |-> Unwritten,
     out_len |-> Unwritten]

----------------------------------------------------------------------------
(* The key store's state machine: each call runs to completion (the        *)
(* program calls this file from one thread).  Init is the state that       *)
(* secrets_init leaves; secrets_cleanup ends the run.                      *)

Idle == [pc |-> "idle"]

\* No secrets_register_type call yet, for any type.
NoneRegistered == [t \in SecretsTypes |-> [latest |-> NULL, all |-> {}]]

Init ==
    /\ initialized = TRUE
    /\ secrets_callbacks = {}
    /\ rsa_privkeys = {}
    /\ uat_rsa_privkeys = <<>>
    /\ heap = EmptyHeap
    /\ reload = Idle
    /\ decrypt = Idle
    /\ registered = NoneRegistered
    /\ loaded_once = FALSE
    /\ last = [op |-> "secrets_init"]

Quiet == initialized /\ reload.pc = "idle" /\ decrypt.pc = "idle"

secrets_cleanup ==
    /\ Quiet
    /\ initialized' = FALSE
    /\ secrets_callbacks' = {}
    /\ \E destroyed \in {privkeys_remove_all([tab |-> rsa_privkeys, heap |-> heap])} :
           /\ rsa_privkeys' = destroyed.tab
           /\ heap' = destroyed.heap
    /\ last' = [op |-> "secrets_cleanup", before |-> rsa_privkeys]
    /\ UNCHANGED <<uat_rsa_privkeys, reload, decrypt, registered, loaded_once>>

\* The UAT is (re)loaded with the records recs and calls its post_update_cb.
uat_rsa_privkeys_post_update(recs) ==
    /\ Quiet
    /\ Len(recs) <= Cardinality(FreeHandles(heap))
    /\ uat_rsa_privkeys' = recs
    /\ \E w \in {post_update_loop(post_update_clear(rsa_privkeys, heap), recs)} :
           /\ rsa_privkeys' = w.tab
           /\ heap' = w.heap
           /\ last' = [op |-> "uat_rsa_privkeys_post_update",
                       before |-> rsa_privkeys,
                       opened |-> w.opened,
                       reports |-> post_update_report(w.errors)]
           /\ loaded_once' = (loaded_once \/ w.tab # {})
    /\ UNCHANGED <<initialized, secrets_callbacks, reload, decrypt, registered>>

secrets_rsa_decrypt(key_id, encr) ==
    /\ Quiet
    /\ \E pkey \in {privkeys_lookup(rsa_privkeys, key_id)} :
           /\ IF pkey = NULL
              THEN last' = decrypt_not_found(key_id, encr)
              ELSE \E r \in gnutls_privkey_decrypt_data(heap, pkey, encr) :
                       last' = decrypt_result(key_id, encr, pkey, r)
           /\ \E w \in {decrypt_return([tab |-> rsa_privkeys, heap |-> heap], pkey)} :
                  /\ rsa_privkeys' = w.tab
                  /\ heap' = w.heap
    /\ UNCHANGED <<initialized, secrets_callbacks, uat_rsa_privkeys,
                   reload, decrypt, registered, loaded_once>>

Reload == \E recs \in SourceLists : uat_rsa_privkeys_post_update(recs)
Decrypt == \E id \in ProbeKeyIds, c \in Ciphertexts : secrets_rsa_decrypt(id, c)

Next ==
    \/ secrets_cleanup
    \/ Reload
    \/ Decrypt

Spec == Init /\ [][Next]_vars

----------------------------------------------------------------------------
(* The dispatch registry's state machine.  It starts where a capture is    *)
(* opened: after secrets_init and the first load of the UAT, which calls   *)
(* the post_update_cb once (see register_rsa_uats).                        *)

RegistryInit ==
    /\ initialized = TRUE
    /\ secrets_callbacks = {}
    /\ \E recs \in SourceLists :
          LET w == post_update_loop(post_update_clear({}, EmptyHeap), recs)
          IN  /\ uat_rsa_privkeys = recs
              /\ rsa_privkeys = w.tab
              /\ heap = w.heap
              /\ last = [op |-> "uat_rsa_privkeys_post_update",
                         before |-> {},
                         opened |-> w.opened,
                         reports |-> post_update_report(w.errors)]
              /\ loaded_once = (w.tab # {})
    /\ reload = Idle
    /\ decrypt = Idle
    /\ registered = NoneRegistered

secrets_register_type(secrets_type, cb) ==
    /\ Quiet
    /\ secrets_callbacks' = callbacks_insert(secrets_callbacks, secrets_type, cb)
    /\ registered' = [registered EXCEPT ![secrets_type] =
                          [latest |-> cb, all |-> @.all \cup {cb}]]
    /\ last' = [op |-> "secrets_register_type"]
    /\ UNCHANGED <<initialized, rsa_privkeys, uat_rsa_privkeys, heap, reload, decrypt,
                   loaded_once>>

secrets_wtap_callback(secrets_type, secrets, size) ==
    /\ Quiet
    /\ last' = [op |-> "secrets_wtap_callback", secrets_type |-> secrets_type,
                secrets |-> secrets, size |-> size,
                calls |-> wtap_callback_calls(secrets_callbacks, secrets_type,
                                              secrets, size)]
    /\ UNCHANGED <<initialized, secrets_callbacks, rsa_privkeys, uat_rsa_privkeys,
                   heap, reload, decrypt, registered, loaded_once>>

Register == \E t \in RegisteredTypes, cb \in Callbacks : secrets_register_type(t, cb)
Dispatch == \E t \in SecretsTypes, b \in SecretsBlobs : secrets_wtap_callback(t, b, Len(b))

RegistryNext ==
    \/ Register
    \/ Dispatch
    \/ secrets_cleanup

RegistrySpec == RegistryInit /\ [][RegistryNext]_vars

----------------------------------------------------------------------------
(* The key store when a reload and a decrypt run on different threads:     *)
(* neither function takes a lock, so each call of the one may fall between *)
(* two calls of the other.                                                 *)

\* What a store holds, whatever the handles: key ID and key pair.
StoreView(tab, hp) == {<<n.k, hp[n.v].key>> : n \in tab}

\* The store the reload in progress will leave.
StoreAfterReload ==
    LET w == post_update_loop([tab |-> rsa_privkeys, heap |-> heap,
                               errors |-> reload.errors,
                               opened |-> reload.opened],
                              SubSeq(uat_rsa_privkeys, reload.i,
                                     Len(uat_rsa_privkeys)))
    IN  StoreView(w.tab, w.heap)

\* What the lookup of a decrypt had before it: the store it read and, when
\* a reload was in progress, the stores before and after that reload.
Observed ==
    [seen |-> StoreView(rsa_privkeys, heap),
     during |-> reload.pc # "idle",
     old |-> IF reload.pc = "idle" THEN StoreView(rsa_privkeys, heap)
             ELSE reload.before,
     new |-> IF reload.pc = "idle" THEN StoreView(rsa_privkeys, heap)
             ELSE StoreAfterReload]

ConcCiphertexts == {Encrypt(1, <<1>>)}

\* g_hash_table_remove_all and errors = NULL, before the loop.
post_update_begin(recs) ==
    /\ initialized
    /\ reload.pc = "idle"
    /\ Len(recs) <= Cardinality(FreeHandles(heap))
    /\ uat_rsa_privkeys' = recs
    /\ \E w \in {post_update_clear(rsa_privkeys, heap)} :
           /\ rsa_privkeys' = w.tab
           /\ heap' = w.heap
           /\ reload' = [pc |-> "loop", i |-> 1, errors |-> w.errors,
                         opened |-> w.opened,
                         before |-> StoreView(rsa_privkeys, heap)]
    /\ UNCHANGED <<initialized, secrets_callbacks, decrypt, registered,
                   loaded_once, last>>

\* One turn of the loop.
post_update_turn ==
    /\ reload.pc = "loop"
    /\ reload.i <= Len(uat_rsa_privkeys)
    /\ \E w \in {post_update_iter([tab |-> rsa_privkeys, heap |-> heap,
                                  errors |-> reload.errors,
                                  opened |-> reload.opened],
                                 uat_rsa_privkeys[reload.i])} :
           /\ rsa_privkeys' = w.tab
           /\ heap' = w.heap
           /\ reload' = [reload EXCEPT !.i = @ + 1, !.errors = w.errors,
                                       !.opened = w.opened]
    /\ UNCHANGED <<initialized, secrets_callbacks, uat_rsa_privkeys, decrypt,
                   registered, loaded_once, last>>

\* The loop is over: report_failure, and return.
post_update_end ==
    /\ reload.pc = "loop"
    /\ reload.i > Len(uat_rsa_privkeys)
    /\ reload' = Idle
    /\ loaded_once' = (loaded_once \/ rsa_privkeys # {})
    /\ last' = [op |-> "uat_rsa_privkeys_post_update",
                before |-> reload.before,
                opened |-> reload.opened,
                reports |-> post_update_report(reload.errors)]
    /\ UNCHANGED <<initialized, secrets_callbacks, rsa_privkeys, uat_rsa_privkeys,
                   heap, decrypt, registered>>

\* secrets_rsa_decrypt up to the test of pkey.
decrypt_lookup(key_id, encr) ==
    /\ initialized
    /\ decrypt.pc = "idle"
    /\ \E pkey \in {privkeys_lookup(rsa_privkeys, key_id)} :
           IF pkey = NULL
           THEN /\ last' = [obs |-> Observed, after_load |-> loaded_once]
                           @@ decrypt_not_found(key_id, encr)
                /\ UNCHANGED decrypt
           ELSE /\ decrypt' = [pc |-> "call", key_id |-> key_id, encr |-> encr,
                               pkey |-> pkey, obs |-> Observed,
                               after_load |-> loaded_once]
                /\ UNCHANGED last
    /\ UNCHANGED <<initialized, secrets_callbacks, rsa_privkeys, uat_rsa_privkeys,
                   heap, reload, registered, loaded_once>>

\* secrets_rsa_decrypt from gnutls_privkey_decrypt_data to the return.
decrypt_call ==
    /\ decrypt.pc = "call"
    /\ \E r \in gnutls_privkey_decrypt_data(heap, decrypt.pkey, decrypt.encr) :
           last' = [obs |-> decrypt.obs, after_load |-> decrypt.after_load,
                    stale |-> ~Live(heap, decrypt.pkey)]
                   @@ decrypt_result(decrypt.key_id, decrypt.encr, decrypt.pkey, r)
    /\ \E w \in {decrypt_return([tab |-> rsa_privkeys, heap |-> heap], decrypt.pkey)} :
           /\ rsa_privkeys' = w.tab
           /\ heap' = w.heap
    /\ decrypt' = Idle
    /\ UNCHANGED <<initialized, secrets_callbacks, uat_rsa_privkeys,
                   reload, registered, loaded_once>>

ConcReloadBegin == \E recs \in SourceLists : post_update_begin(recs)
ConcLookup == \E id \in ProbeKeyIds, c \in ConcCiphertexts : decrypt_lookup(id, c)

ConcNext ==
    \/ ConcReloadBegin
    \/ post_update_turn
    \/ post_update_end
    \/ ConcLookup
    \/ decrypt_call

ConcSpec == Init /\ [][ConcNext]_vars

----------------------------------------------------------------------------
(* Notions the properties are stated with.                                 *)

\* A source loaded on its own into an empty store.
EmptyWorld == [tab |-> {}, heap |-> EmptyHeap, errors |-> NullStr, opened |-> <<>>]
Alone(rec) == post_update_iter(EmptyWorld, rec)
\* The key IDs it yields (none or one), and whether it reports an error.
SourceKeyIds(rec) == {n.k : n \in Alone(rec).tab}
SourceFails(rec) == Alone(rec).errors # NullStr

\* The sources of a list that fail, and the j-th of them in list order.
Failing(recs) == {i \in 1..Len(recs) : SourceFails(recs[i])}
NthFailing(recs, j) ==
    CHOOSE i \in Failing(recs) : Cardinality({f \in Failing(recs) : f <= i}) = j

\* The lines of the report that the last reload surfaced, header excluded.
ReportLines == IF last.reports = <<>> THEN <<>> ELSE Tail(last.reports[1])

\* uat_rsa_privkeys_post_update has just returned.
AfterReload == initialized /\ last.op = "uat_rsa_privkeys_post_update"

\* Whether a source gets as far as gnutls_privkey_init, and, after a
\* reload, the handle that the i-th source of the list was given: the
\* provider hands them out in order.
SourceInits(rec) == Alone(rec).heap[1].alloc
NumInits(recs, n) == Cardinality({i \in 1..n : SourceInits(recs[i])})
HandleOfSource(i) ==
    Cardinality({h \in Handles : heap[h].alloc})
    - NumInits(uat_rsa_privkeys, Len(uat_rsa_privkeys))
    + NumInits(uat_rsa_privkeys, i)

\* The last source of the list that yields the same key ID as source i.
LastWithKeyIdOf(i) ==
    CHOOSE j \in i..Len(uat_rsa_privkeys) :
        /\ SourceKeyIds(uat_rsa_privkeys[j]) = SourceKeyIds(uat_rsa_privkeys[i])
        /\ \A l \in (j + 1)..Len(uat_rsa_privkeys) :
               SourceKeyIds(uat_rsa_privkeys[l]) # SourceKeyIds(uat_rsa_privkeys[i])

\* The sources of a list that are not PKCS #11 token URIs.
TokenUris == {"pkcs11:token"}
KeyFiles(recs) == SelectSeq(recs, LAMBDA rec : rec.uri \notin TokenUris)

\* How far a source gets, and the diagnostic where it stops: errno, the
\* decoder's message, or the provider's code.
Outcome(rec) ==
    IF rec.uri \in TokenUris THEN <<"skipped">>
    ELSE IF rec.uri \notin FileNames THEN <<"open", <<"ENOENT">>>>
    ELSE LET loaded == IF rec.password = ""
                       THEN rsa_load_pem_key(FileContent(rec.uri))
                       ELSE rsa_load_pkcs12(FileContent(rec.uri), rec.password)
         IN  IF loaded.key = NULL THEN <<"decode", loaded.errmsg>>
             ELSE IF gnutls_privkey_import_x509(loaded.key) < 0
             THEN <<"import", gnutls_privkey_import_x509(loaded.key)>>
             ELSE IF gnutls_x509_privkey_get_key_id(loaded.key).ret < 0
             THEN <<"key id", gnutls_x509_privkey_get_key_id(loaded.key).ret>>
             ELSE <<"loaded">>

\* The passwords a user may type, and the lists that differ from recs in
\* the passwords alone.
Passwords == {"", "1234", "secret", "wrong", "guess"}
OtherPasswords(recs) ==
    {[i \in 1..Len(recs) |-> [uri |-> recs[i].uri, password |-> pw[i]]] :
        pw \in [1..Len(recs) -> Passwords]}
SameOutcomes(recs, alt) == \A i \in 1..Len(recs) : Outcome(recs[i]) = Outcome(alt[i])

\* The report_failure calls of a reload of recs.
ReportsOf(recs) ==
    post_update_report(post_update_loop(post_update_clear({}, EmptyHeap), recs).errors)

\* secrets_rsa_decrypt has just returned.
AfterDecrypt == initialized /\ last.op = "secrets_rsa_decrypt"

----------------------------------------------------------------------------
(* The properties.                                                         *)

\* C1: a reload replaces the store, it never merges: once
\* uat_rsa_privkeys_post_update has returned, a key ID that was in the store
\* before the call and that no source of the new list yields is not found
\* by a lookup.
C1_ReloadReplaces ==
    AfterReload =>
        \A n \in last.before :
            (\A i \in 1..Len(uat_rsa_privkeys) :
                 n.k \notin SourceKeyIds(uat_rsa_privkeys[i]))
            => privkeys_lookup(rsa_privkeys, n.k) = NULL

\* A reload that loaded a key and dropped another one that it found.
C1_Witness ==
    /\ AfterReload
    /\ rsa_privkeys # {}
    /\ \E n \in last.before :
           /\ \A i \in 1..Len(uat_rsa_privkeys) :
                  n.k \notin SourceKeyIds(uat_rsa_privkeys[i])
           /\ privkeys_lookup(rsa_privkeys, n.k) = NULL

\* C2: partial-failure isolation: after a reload the report holds exactly
\* one line for each failing source, in list order and naming its URI, and
\* the key ID of every source that loads is found in the store, whether it
\* comes before or after a failing source.
C2_PartialFailureIsolation ==
    AfterReload =>
        /\ Len(ReportLines) = Cardinality(Failing(uat_rsa_privkeys))
        /\ \A j \in 1..Len(ReportLines) :
               ReportLines[j][2] = uat_rsa_privkeys[NthFailing(uat_rsa_privkeys, j)].uri
        /\ \A i \in 1..Len(uat_rsa_privkeys) :
               \A id \in SourceKeyIds(uat_rsa_privkeys[i]) :
                   privkeys_lookup(rsa_privkeys, id) # NULL

\* A reload in which a PKCS #12 source with the wrong password failed and a
\* source after it loaded.
C2_Witness ==
    /\ AfterReload
    /\ Len(uat_rsa_privkeys) = 2
    /\ uat_rsa_privkeys[1] = [uri |-> "k2.p12", password |-> "wrong"]
    /\ Len(ReportLines) = 1
    /\ \E id \in SourceKeyIds(uat_rsa_privkeys[2]) :
           privkeys_lookup(rsa_privkeys, id) # NULL

\* C3: a reload is atomic for a decrypt on another thread: the store that
\* the lookup of secrets_rsa_decrypt reads is, whole, either the store from
\* before the reload in progress or the store that reload leaves.
C3_AtomicReload ==
    /\ (decrypt.pc = "call" => decrypt.obs.seen \in {decrypt.obs.old, decrypt.obs.new})
    /\ (last.op = "secrets_rsa_decrypt" => last.obs.seen \in {last.obs.old, last.obs.new})

\* C4: no visible empty window: once a reload has completed and left a key
\* in the store, the lookup of secrets_rsa_decrypt never reads a store
\* with no key in it.  A reload that loads nothing leaves an empty store
\* by design, so this is stated for the window alone: the store before the
\* reload in progress and the store it leaves both hold a key (with no
\* reload in progress both are the store that is read).
C4_NoEmptyWindow ==
    /\ last.op = "secrets_rsa_decrypt"
    /\ last.after_load
    /\ last.obs.old # {}
    /\ last.obs.new # {}
    => last.obs.seen # {}

\* C5: secrets_rsa_decrypt with a key ID that is not in the store (never
\* added, or removed by a later reload) returns GNUTLS_E_NO_CERTIFICATE_FOUND,
\* does not call the provider's decrypt, and writes neither *out nor
\* *out_len.
C5_KeyNotFound ==
    AfterDecrypt /\ (\A n \in rsa_privkeys : n.k # last.key_id)
    => /\ last.ret = GNUTLS_E_NO_CERTIFICATE_FOUND
       /\ last.provider = <<>>
       /\ last.out = Unwritten
       /\ last.out_len = Unwritten

\* A decrypt for key 1 after a reload removed key 1 and loaded another key.
C5_Witness ==
    /\ AfterDecrypt
    /\ last.key_id = Sha1KeyId(1)
    /\ rsa_privkeys # {}
    /\ \A n \in rsa_privkeys : n.k # last.key_id
    /\ \E h \in Handles : heap[h].deinit = 1
    /\ last.ret = GNUTLS_E_NO_CERTIFICATE_FOUND

\* C6: secrets_rsa_decrypt only reads the key store: whatever it returns,
\* the nodes of the store (key IDs and the handle of each) and the
\* provider's key objects, released or not, are after the call what they
\* were before it.
C6_DecryptPureRead ==
    [][(last'.op = "secrets_rsa_decrypt" /\ Decrypt)
       => (rsa_privkeys' = rsa_privkeys /\ heap' = heap)]_vars

\* A decrypt that returned a plaintext, with the key it used still held.
C6_Witness ==
    /\ AfterDecrypt
    /\ last.ret = GNUTLS_E_SUCCESS
    /\ last.provider # <<>>
    /\ \E n \in rsa_privkeys : n.v = last.provider[1].pkey /\ Live(heap, n.v)

\* C7: at most one handler per secrets type: the table holds one node per
\* type, and secrets_wtap_callback for a registered type calls the handler
\* of the latest secrets_register_type for that type, once, with the bytes
\* and the size it was given, and calls nothing else.
C7_LatestHandlerOnly ==
    /\ \A n1, n2 \in secrets_callbacks : n1.k = n2.k => n1 = n2
    /\ (initialized /\ last.op = "secrets_wtap_callback"
        /\ registered[last.secrets_type].all # {})
       => last.calls = <<[cb |-> registered[last.secrets_type].latest,
                          secrets |-> last.secrets, size |-> last.size]>>

\* A dispatch for a type that two different handlers were registered for,
\* while another type has the handler that was replaced.
C7_Witness ==
    /\ initialized
    /\ last.op = "secrets_wtap_callback"
    /\ registered[last.secrets_type].all = Callbacks
    /\ Len(last.calls) = 1
    /\ \E t \in RegisteredTypes :
           /\ t # last.secrets_type
           /\ registered[t].latest \notin {NULL, last.calls[1].cb}

\* C8: secrets_wtap_callback for a type never given to
\* secrets_register_type calls no handler, returns normally, and leaves
\* the registry and the key store as they were.
C8_UnregisteredNoOp ==
    [][\A t \in SecretsTypes, b \in SecretsBlobs :
          (secrets_wtap_callback(t, b, Len(b)) /\ registered[t].all = {})
          => /\ last'.op = "secrets_wtap_callback"
             /\ last'.calls = <<>>
             /\ secrets_callbacks' = secrets_callbacks
             /\ registered' = registered
             /\ rsa_privkeys' = rsa_privkeys
             /\ heap' = heap]_vars

\* A dispatch for an unregistered type while other types have handlers and
\* the store holds a key.
C8_Witness ==
    /\ initialized
    /\ last.op = "secrets_wtap_callback"
    /\ registered[last.secrets_type].all = {}
    /\ last.calls = <<>>
    /\ secrets_callbacks # {}
    /\ rsa_privkeys # {}

\* C9: the store maps a key ID (all 20 bytes compared) to at most one
\* handle; when a reload adds a key ID that is already in the store, the
\* lookup of that key ID gives the handle added last, which is not
\* released, and every handle it replaced has been released exactly once.
C9_OneHandlePerKeyId ==
    /\ \A n1, n2 \in rsa_privkeys : n1.k = n2.k => n1 = n2
    /\ AfterReload =>
           \A i \in 1..Len(uat_rsa_privkeys) :
               \A id \in SourceKeyIds(uat_rsa_privkeys[i]) :
                   IF i = LastWithKeyIdOf(i)
                   THEN /\ privkeys_lookup(rsa_privkeys, id) = HandleOfSource(i)
                        /\ heap[HandleOfSource(i)].deinit = 0
                   ELSE /\ privkeys_lookup(rsa_privkeys, id) # HandleOfSource(i)
                        /\ heap[HandleOfSource(i)].deinit = 1

\* A reload that loaded the same key twice.
C9_Witness ==
    /\ AfterReload
    /\ Len(uat_rsa_privkeys) = 2
    /\ SourceKeyIds(uat_rsa_privkeys[1]) # {}
    /\ SourceKeyIds(uat_rsa_privkeys[1]) = SourceKeyIds(uat_rsa_privkeys[2])
    /\ Cardinality(rsa_privkeys) = 1
    /\ heap[HandleOfSource(1)].deinit = 1
    /\ \E n \in rsa_privkeys : n.v = HandleOfSource(2)

\* C10: round trip: for key pairs 1 and 2 and every plaintext of
\* Plaintexts, when the reload loaded the private key, secrets_rsa_decrypt
\* of the plaintext encrypted with the public key, asked for with that
\* public key's ID, returns 0 and the plaintext's bytes and length.
C10_RoundTrip ==
    AfterDecrypt =>
        \A k \in {1, 2}, p \in Plaintexts :
            (/\ last.key_id = Sha1KeyId(k)
             /\ last.encr = Encrypt(k, p)
             /\ \E i \in 1..Len(uat_rsa_privkeys) :
                    Sha1KeyId(k) \in SourceKeyIds(uat_rsa_privkeys[i]))
            => /\ last.ret = GNUTLS_E_SUCCESS
               /\ last.out = Written(p)
               /\ last.out_len = Written(<<Len(p)>>)

\* A decrypt that gave back the two-byte plaintext sent to key 2, with key
\* 1 in the store as well.
C10_Witness ==
    /\ AfterDecrypt
    /\ last.key_id = Sha1KeyId(2)
    /\ last.encr = Encrypt(2, <<2, 3>>)
    /\ last.ret = GNUTLS_E_SUCCESS
    /\ last.out = Written(<<2, 3>>)
    /\ Cardinality(rsa_privkeys) = 2

\* C11: when the key ID is in the store, secrets_rsa_decrypt calls the
\* provider's decrypt once, with the handle stored for that key ID and the
\* ciphertext it was given; when the provider succeeds it returns 0 and
\* hands out the provider's plaintext and its length, and when the
\* provider fails it returns the provider's code unchanged.
C11_ProviderResult ==
    AfterDecrypt =>
        \A n \in rsa_privkeys :
            n.k = last.key_id =>
                \E r \in {DecryptWith(heap[n.v].key, last.encr)} :
                    /\ last.provider = <<[pkey |-> n.v, encr |-> last.encr]>>
                    /\ last.ret = r.ret
                    /\ r.ret = GNUTLS_E_SUCCESS =>
                           /\ last.out = Written(r.data)
                           /\ last.out_len = Written(<<r.size>>)

\* A decrypt with key 1 of a ciphertext made for key 2: the provider finds
\* the padding wrong and its code comes back.
C11_Witness ==
    /\ AfterDecrypt
    /\ last.key_id = Sha1KeyId(1)
    /\ \E n \in rsa_privkeys : n.k = last.key_id /\ heap[n.v].key = 1
    /\ last.encr = Encrypt(2, <<1>>)
    /\ last.provider # <<>>
    /\ last.ret = gnutls_error("GNUTLS_E_DECRYPTION_FAILED")

\* C12: a source whose URI starts with "pkcs11:" is skipped by a reload:
\* its URI is not given to ws_fopen (the names opened are those of the
\* other sources, in order), no line of the report names it, and the keys
\* in the store and the report are those of a reload of the list without
\* it, so it adds no key and the sources after it are processed.
C12_TokenSkipped ==
    AfterReload =>
        \E files \in {KeyFiles(uat_rsa_privkeys)} :
            \E w \in {post_update_loop(post_update_clear({}, EmptyHeap), files)} :
                /\ last.opened = [i \in 1..Len(files) |-> files[i].uri]
                /\ \A j \in 1..Len(ReportLines) : ReportLines[j][2] \notin TokenUris
                /\ StoreView(rsa_privkeys, heap) = StoreView(w.tab, w.heap)
                /\ last.reports = post_update_report(w.errors)

\* A reload of a token URI followed by a key file, which loaded.
C12_Witness ==
    /\ AfterReload
    /\ Len(uat_rsa_privkeys) = 2
    /\ uat_rsa_privkeys[1].uri \in TokenUris
    /\ last.opened = <<uat_rsa_privkeys[2].uri>>
    /\ last.reports = <<>>
    /\ Cardinality(rsa_privkeys) = 1

\* C13: a reload calls report_failure once when at least one source
\* failed and not at all otherwise; the one report starts with the header
\* and then holds, in list order, the error of each failing source and
\* nothing else, the last failing source included, so it is made when the
\* loop over the sources is over.
C13_ErrorAggregation ==
    AfterReload =>
        /\ Len(last.reports) = IF Failing(uat_rsa_privkeys) = {} THEN 0 ELSE 1
        /\ last.reports # <<>> =>
               /\ Head(last.reports[1]) = "Error processing rsa_privkeys:"
               /\ Len(ReportLines) = Cardinality(Failing(uat_rsa_privkeys))
               /\ \A j \in 1..Len(ReportLines) :
                      ReportLines[j] =
                          Alone(uat_rsa_privkeys[NthFailing(uat_rsa_privkeys, j)]).errors[2]

\* A reload whose two sources failed at different steps, reported once.
C13_Witness ==
    /\ AfterReload
    /\ Cardinality(Failing(uat_rsa_privkeys)) = 2
    /\ Len(last.reports) = 1
    /\ Len(ReportLines) = 2
    /\ ReportLines[1][1] # ReportLines[2][1]

\* C14: every key object is released exactly once: at any time an
\* allocated handle is either in the store and not released, or out of the
\* store and released once; secrets_cleanup leaves no store entry and has
\* released every handle the store held, and so has the clearing of a
\* reload, after which no entry of the store has a handle from before.
C14_TeardownReleasesAll ==
    /\ \A h \in Handles :
           heap[h].alloc =>
               heap[h].deinit = IF \E n \in rsa_privkeys : n.v = h THEN 0 ELSE 1
    /\ last.op = "secrets_cleanup" =>
           /\ rsa_privkeys = {}
           /\ \A n \in last.before : heap[n.v].deinit = 1
    /\ AfterReload =>
           \A n \in last.before :
               /\ heap[n.v].deinit = 1
               /\ \A n2 \in rsa_privkeys : n2.v # n.v

\* A teardown of a store with two keys, after an earlier reload had
\* already released a third key object.
C14_Witness ==
    /\ last.op = "secrets_cleanup"
    /\ Cardinality(last.before) = 2
    /\ \A h \in Handles : heap[h].alloc /\ heap[h].deinit = 1

\* C15: no password in a report: a reload of a list that differs from the
\* configured one in the passwords alone, and in which every source gets as
\* far and stops with the same diagnostic, surfaces the very report that
\* the reload of the configured list surfaced.
C15_NoPasswordInReport ==
    AfterReload =>
        \A alt \in OtherPasswords(uat_rsa_privkeys) :
            SameOutcomes(uat_rsa_privkeys, alt) => ReportsOf(alt) = last.reports

\* A reload that reported a PKCS #12 file it could not decrypt and a
\* missing file, and the same list with two other passwords.
C15_Witness ==
    /\ AfterReload
    /\ uat_rsa_privkeys = <<[uri |-> "k2.p12", password |-> "wrong"],
                            [uri |-> "missing.pem", password |-> ""]>>
    /\ Len(ReportLines) = 2
    /\ \E alt \in OtherPasswords(uat_rsa_privkeys) :
           /\ alt[1].password = "guess"
           /\ alt[2].password = "1234"
           /\ SameOutcomes(uat_rsa_privkeys, alt)
           /\ ReportsOf(alt) = last.reports

\* C16: no use of a released handle: when a reload and a decrypt run on
\* different threads, the handle that secrets_rsa_decrypt gives to
\* gnutls_privkey_decrypt_data has not been given to gnutls_privkey_deinit.
C16_NoUseAfterRelease ==
    (last.op = "secrets_rsa_decrypt" /\ last.provider # <<>>) => ~last.stale

\* C17: duplicates in one list: when two sources of a reload load and
\* yield the same key ID, the store afterwards has one entry for that key
\* ID, whose handle is the one of the last such source and is not
\* released; the handle of each earlier one has been released once; and
\* the report has no line beyond those of the failing sources.
C17_DuplicateInBatch ==
    AfterReload =>
        \A i, j \in 1..Len(uat_rsa_privkeys) :
            (/\ i < j
             /\ SourceKeyIds(uat_rsa_privkeys[i]) # {}
             /\ SourceKeyIds(uat_rsa_privkeys[i]) = SourceKeyIds(uat_rsa_privkeys[j]))
            => \A id \in SourceKeyIds(uat_rsa_privkeys[i]) :
                   /\ Cardinality({n \in rsa_privkeys : n.k = id}) = 1
                   /\ \A n \in rsa_privkeys :
                          n.k = id => /\ n.v = HandleOfSource(LastWithKeyIdOf(j))
                                      /\ Live(heap, n.v)
                   /\ heap[HandleOfSource(i)].deinit = 1
                   /\ Len(ReportLines) = Cardinality(Failing(uat_rsa_privkeys))

\* A reload that loaded the same PKCS #12 file twice and reported nothing.
C17_Witness ==
    /\ AfterReload
    /\ uat_rsa_privkeys = <<[uri |-> "k2.p12", password |-> "secret"],
                            [uri |-> "k2.p12", password |-> "secret"]>>
    /\ rsa_privkeys = {[k |-> Sha1KeyId(2), v |-> HandleOfSource(2)]}
    /\ heap[HandleOfSource(1)].deinit = 1
    /\ last.reports = <<>>

\* C18: handle conservation in load_rsa_keyfile: called in any state of
\* the store for any source, every key object the call initialised is at
\* its return either the value of a store entry and not released, or in no
\* entry and released once; a call that set *err left the store as it
\* was, and a call that put its handle in the store left *err NULL.  So,
\* after a reload, is the handle of every source of the list.
C18_HandleConservation ==
    /\ (initialized /\ FreeHandles(heap) # {}) =>
           \A rec \in SourceRecords :
               \E r \in {load_rsa_keyfile([tab |-> rsa_privkeys, heap |-> heap,
                                           opened |-> <<>>],
                                          rec.uri, rec.password)} :
                   /\ \A h \in FreeHandles(heap) :
                          r.heap[h].alloc =>
                              r.heap[h].deinit = IF \E n \in r.tab : n.v = h THEN 0 ELSE 1
                   /\ r.err # NullStr => r.tab = rsa_privkeys
                   /\ (\E n \in r.tab : n.v \in FreeHandles(heap)) => r.err = NullStr
    /\ AfterReload =>
           \A i \in 1..Len(uat_rsa_privkeys) :
               SourceInits(uat_rsa_privkeys[i]) =>
                   /\ heap[HandleOfSource(i)].deinit =
                          IF \E n \in rsa_privkeys : n.v = HandleOfSource(i) THEN 0 ELSE 1
                   /\ SourceFails(uat_rsa_privkeys[i]) =>
                          \A n \in rsa_privkeys : n.v # HandleOfSource(i)

\* A reload whose first source failed at the key ID, after its key object
\* was made, and whose second source loaded.
C18_Witness ==
    /\ AfterReload
    /\ Len(uat_rsa_privkeys) = 2
    /\ Outcome(uat_rsa_privkeys[1])[1] = "key id"
    /\ heap[HandleOfSource(1)].deinit = 1
    /\ Outcome(uat_rsa_privkeys[2]) = <<"loaded">>
    /\ rsa_privkeys = {[k |-> Sha1KeyId(1), v |-> HandleOfSource(2)]}
    /\ Live(heap, HandleOfSource(2))

\* C19: GNUTLS_E_NO_CERTIFICATE_FOUND means a missing key and nothing
\* else: when the key ID is in the store, secrets_rsa_decrypt has called
\* the provider and returns either 0, with the plaintext handed out, or a
\* negative code of the provider that is not GNUTLS_E_NO_CERTIFICATE_FOUND,
\* with nothing handed out.
C19_NotFoundOnlyIfAbsent ==
    (AfterDecrypt /\ \E n \in rsa_privkeys : n.k = last.key_id) =>
        /\ last.ret # GNUTLS_E_NO_CERTIFICATE_FOUND
        /\ last.provider # <<>>
        /\ \/ last.ret = GNUTLS_E_SUCCESS /\ last.out.set /\ last.out_len.set
           \/ last.ret < 0 /\ last.out = Unwritten /\ last.out_len = Unwritten

\* A decrypt with key 2, which is in the store, of bytes that are no
\* ciphertext: the provider's failure, told apart from a missing key.
C19_Witness ==
    /\ AfterDecrypt
    /\ last.key_id = Sha1KeyId(2)
    /\ \E n \in rsa_privkeys : n.k = last.key_id
    /\ last.encr = <<5>>
    /\ last.ret < 0
    /\ last.ret # GNUTLS_E_NO_CERTIFICATE_FOUND

\* C20: a reload does not depend on what the store held: the key IDs in
\* the store and the report after a reload are those of a reload of the
\* same list into an empty store, and a second reload of the list right
\* after the first gives the same key IDs and the same report again.
C20_ReloadIdempotent ==
    AfterReload =>
        /\ \E w \in {post_update_loop(post_update_clear({}, EmptyHeap),
                                      uat_rsa_privkeys)} :
               /\ {n.k : n \in rsa_privkeys} = {n.k : n \in w.tab}
               /\ last.reports = post_update_report(w.errors)
        /\ NumInits(uat_rsa_privkeys, Len(uat_rsa_privkeys))
               <= Cardinality(FreeHandles(heap)) =>
               \E w \in {post_update_loop(post_update_clear(rsa_privkeys, heap),
                                          uat_rsa_privkeys)} :
                   /\ {n.k : n \in w.tab} = {n.k : n \in rsa_privkeys}
                   /\ post_update_report(w.errors) = last.reports

\* A reload, over a store that held another key, that loaded a key and
\* reported a failure, in a state where the list can be reloaded again.
C20_Witness ==
    /\ AfterReload
    /\ last.before # {}
    /\ rsa_privkeys # {}
    /\ \A n \in last.before : \A n2 \in rsa_privkeys : n.k # n2.k
    /\ last.reports # <<>>
    /\ NumInits(uat_rsa_privkeys, Len(uat_rsa_privkeys)) <= Cardinality(FreeHandles(heap))

====
